---- MODULE Spec2Model ----
(***************************************************************************)
(* Client-side connectors of the boring-vault program:                     *)
(*   python/boring_vault_svm/connectors.py  set_deposit_sub_account and    *)
(*                                          set_withdraw_sub_account       *)
(*   python/tests/test_sub_accounts.py      the caller: confirm, fetch the *)
(*                                          state account, decode it       *)
(*                                                                         *)
(* A Python int is unbounded.  It is written here as a sign and a          *)
(* magnitude of five base-65536 digits, least significant first, so that   *)
(* every value below 2^80 is representable and the 2^64 boundary of a U64  *)
(* is inside the model.                                                    *)
(***************************************************************************)
EXTENDS Integers, Sequences, FiniteSets, TLC

VARIABLES
    pc,               \* position of the caller / of the running connector call
    call,             \* arguments of the running call
    instruction,      \* the Instruction built by the call (lines 65-69)
    recent_blockhash, \* latest_blockhash_resp.value.blockhash (line 72)
    transaction,      \* the signed VersionedTransaction (line 81)
    result,           \* what the call returned (line 84)
    err,              \* the exception that ended the call or the caller's step
    steps,            \* library operations the running call has invoked, in order
    account_info,     \* rpc_client.get_account_info(...).value (test line 93)
    decoded_data,     \* boring_vault_flat_struct.parse(...) (test line 96)
    ncalls,           \* connector calls made so far
    vaults,           \* ledger: state accounts of the program, by address
    pending,          \* ledger: transactions accepted and not yet processed
    statuses,         \* ledger: processed transactions and how they ended
    slot              \* ledger: number of transactions processed

vars == <<pc, call, instruction, recent_blockhash, transaction, result, err,
          steps, account_info, decoded_data, ncalls, vaults, pending,
          statuses, slot>>

\* Number of connector calls one behaviour makes.
MaxCalls == 2

None == [tag |-> "None"]

-----------------------------------------------------------------------------
(* Python ints *)

PyInt(neg, d1, d2, d3, d4, d5) == [neg |-> neg, mag |-> <<d1, d2, d3, d4, d5>>]

PyNat(n) == PyInt(FALSE, n, 0, 0, 0, 0)

\* Byte i (1 = least significant) of the magnitude of x.
ByteOf(x, i) ==
    IF i > 10 THEN 0
    ELSE LET d == x.mag[(i + 1) \div 2]
         IN  IF i % 2 = 1 THEN d % 256 ELSE d \div 256

\* x is in [0, 2^(8w)).
IntFits(x, w) == ~x.neg /\ \A i \in (w + 1)..10 : ByteOf(x, i) = 0

\* int.to_bytes(length, 'little'): OverflowError for a negative int and for an
\* int too big for length bytes.
to_bytes_little(x, length) ==
    IF IntFits(x, length)
    THEN [ok |-> TRUE, bytes |-> [i \in 1..length |-> ByteOf(x, i)]]
    ELSE [ok |-> FALSE, error |-> "OverflowError"]

-----------------------------------------------------------------------------
(* borsh_construct field codecs *)

\* The same packing with the most significant byte first.
IntBuildBigEndian(w, x) ==
    IF IntFits(x, w)
    THEN [ok |-> TRUE, bytes |-> [i \in 1..w |-> ByteOf(x, w + 1 - i)]]
    ELSE [ok |-> FALSE, error |-> "FormatFieldError"]

\* Packing that keeps the low bytes of a value that does not fit.
IntBuildWrapping(w, x) ==
    [ok |-> TRUE, bytes |-> [i \in 1..w |-> ByteOf(x, i)]]

\* borsh.U8 / U16 / U32 / U64 .build: w little-endian bytes, an error when the
\* value does not fit the width.
IntBuild(w, x) ==
    IF IntFits(x, w)
    THEN [ok |-> TRUE, bytes |-> [i \in 1..w |-> ByteOf(x, i)]]
    ELSE [ok |-> FALSE, error |-> "FormatFieldError"]

\* borsh.U8 / U16 / U32 / U64 .parse of exactly w bytes.
IntParse(w, b) ==
    LET byte(i) == IF i <= w THEN b[i] ELSE 0
    IN  [neg |-> FALSE,
         mag |-> [k \in 1..5 |-> byte(2 * k - 1) + 256 * byte(2 * k)]]

\* borsh.Bool .parse: one byte, non-zero is true.
BoolParse(b) == b[1] # 0

\* construct.Bytes(n) .parse: the bytes as they are.
BytesParse(b) == b

FieldParse(f, b) ==
    CASE f.kind = "int"   -> IntParse(f.width, b)
      [] f.kind = "bool"  -> BoolParse(b)
      [] f.kind = "bytes" -> BytesParse(b)

IntField(name, w) == [name |-> name, kind |-> "int", width |-> w]
Flag(name) == [name |-> name, kind |-> "bool", width |-> 1]
RawBytes(name, w) == [name |-> name, kind |-> "bytes", width |-> w]

\* Sum of the widths of the first n fields of a struct.
RECURSIVE SizeOfPrefix(_, _)
SizeOfPrefix(struct, n) ==
    IF n = 0 THEN 0 ELSE SizeOfPrefix(struct, n - 1) + struct[n].width

SizeOf(struct) == SizeOfPrefix(struct, Len(struct))

FieldIndex(struct, name) == CHOOSE i \in 1..Len(struct) : struct[i].name = name

\* A parse that insists on the whole buffer being consumed.
CStructParseExact(struct, buf) ==
    IF Len(buf) # SizeOf(struct)
    THEN [ok |-> FALSE, error |-> "StreamError"]
    ELSE [ok |-> TRUE,
          consumed |-> SizeOf(struct),
          value |-> [name \in {struct[i].name : i \in 1..Len(struct)} |->
                        LET i == FieldIndex(struct, name)
                            off == SizeOfPrefix(struct, i - 1)
                        IN  FieldParse(struct[i],
                                       SubSeq(buf, off + 1, off + struct[i].width))]]

\* CStruct.parse(buf): the fields are read one after the other from the front of
\* the buffer; a buffer that ends inside a field is a StreamError; bytes left
\* after the last field are not looked at.
CStructParse(struct, buf) ==
    IF Len(buf) < SizeOf(struct)
    THEN [ok |-> FALSE, error |-> "StreamError"]
    ELSE [ok |-> TRUE,
          consumed |-> SizeOf(struct),
          value |-> [name \in {struct[i].name : i \in 1..Len(struct)} |->
                        LET i == FieldIndex(struct, name)
                            off == SizeOfPrefix(struct, i - 1)
                        IN  FieldParse(struct[i],
                                       SubSeq(buf, off + 1, off + struct[i].width))]]

\* CStruct.build(obj) of a struct of integer fields: the fields' encodings one
\* after the other, the first field's error if one does not fit.
RECURSIVE CStructBuildPrefix(_, _, _)
CStructBuildPrefix(struct, obj, n) ==
    IF n = 0 THEN [ok |-> TRUE, bytes |-> <<>>]
    ELSE LET before == CStructBuildPrefix(struct, obj, n - 1)
             field == IntBuild(struct[n].width, obj[struct[n].name])
         IN  IF ~before.ok THEN before
             ELSE IF ~field.ok THEN field
             ELSE [ok |-> TRUE, bytes |-> before.bytes \o field.bytes]

CStructBuild(struct, obj) == CStructBuildPrefix(struct, obj, Len(struct))

-----------------------------------------------------------------------------
(* connectors.py: constants and schemas *)

\* The deposit command built with the withdraw command's discriminator.
DiscriminatorOfTheOtherCommand == <<152, 197, 103, 249, 56, 180, 0, 172>>

SET_DEPOSIT_SUB_ACCOUNT_DISCRIMINATOR == <<135, 238, 218, 4, 120, 77, 207, 156>>

SET_WITHDRAW_SUB_ACCOUNT_DISCRIMINATOR == <<152, 197, 103, 249, 56, 180, 0, 172>>

\* The argument schema with its two fields in the other order.
args_struct_selector_first ==
    <<IntField("new_sub_account", 1), IntField("vault_id", 8)>>

args_struct == <<IntField("vault_id", 8), IntField("new_sub_account", 1)>>

BASE_SEED_BORING_VAULT_STATE == "boring-vault-state"

\* The record layout with the minimum update delay read as a U16.
boring_vault_flat_struct_u16_delay ==
    << IntField("config_vault_id", 8),
       RawBytes("config_authority", 32),
       RawBytes("config_pending_authority", 32),
       Flag("config_paused"),
       RawBytes("config_share_mint", 32),
       IntField("config_deposit_sub_account", 1),
       IntField("config_withdraw_sub_account", 1),
       RawBytes("teller_base_asset", 32),
       IntField("teller_decimals", 1),
       RawBytes("teller_exchange_rate_provider", 32),
       IntField("teller_exchange_rate", 8),
       IntField("teller_exchange_rate_high_water_mark", 8),
       IntField("teller_fees_owed_in_base_asset", 8),
       IntField("teller_total_shares_last_update", 8),
       IntField("teller_last_update_timestamp", 8),
       RawBytes("teller_payout_address", 32),
       IntField("teller_allowed_exchange_rate_change_upper_bound", 2),
       IntField("teller_allowed_exchange_rate_change_lower_bound", 2),
       IntField("teller_minimum_update_delay_in_seconds", 2),
       IntField("teller_platform_fee_bps", 2),
       IntField("teller_performance_fee_bps", 2),
       RawBytes("teller_withdraw_authority", 32),
       RawBytes("manager_strategist", 32) >>

\* test_sub_accounts.py: the layout of the state account after its 8-byte tag.
boring_vault_flat_struct ==
    << IntField("config_vault_id", 8),
       RawBytes("config_authority", 32),
       RawBytes("config_pending_authority", 32),
       Flag("config_paused"),
       RawBytes("config_share_mint", 32),
       IntField("config_deposit_sub_account", 1),
       IntField("config_withdraw_sub_account", 1),
       RawBytes("teller_base_asset", 32),
       IntField("teller_decimals", 1),
       RawBytes("teller_exchange_rate_provider", 32),
       IntField("teller_exchange_rate", 8),
       IntField("teller_exchange_rate_high_water_mark", 8),
       IntField("teller_fees_owed_in_base_asset", 8),
       IntField("teller_total_shares_last_update", 8),
       IntField("teller_last_update_timestamp", 8),
       RawBytes("teller_payout_address", 32),
       IntField("teller_allowed_exchange_rate_change_upper_bound", 2),
       IntField("teller_allowed_exchange_rate_change_lower_bound", 2),
       IntField("teller_minimum_update_delay_in_seconds", 4),
       IntField("teller_platform_fee_bps", 2),
       IntField("teller_performance_fee_bps", 2),
       RawBytes("teller_withdraw_authority", 32),
       RawBytes("manager_strategist", 32) >>

\* Keypair.pubkey()
KeypairPubkey(keypair) == [kind |-> "key", owner |-> keypair]

\* Pubkey.find_program_address(seeds, program_id)[0]: the address is a one-way,
\* collision-free function of the seeds and the program, written as that pair.
\* The connectors discard the bump.
find_program_address(seeds, program_id) ==
    [kind |-> "pda", program_id |-> program_id, seeds |-> seeds]

AccountMeta(pubkey, is_signer, is_writable) ==
    [pubkey |-> pubkey, is_signer |-> is_signer, is_writable |-> is_writable]

\* The account list with the state account read-only.
AccountsReadOnlyState(authority_pubkey, vault_state_pda) ==
    << AccountMeta(authority_pubkey, TRUE, FALSE),
       AccountMeta(vault_state_pda, FALSE, FALSE) >>

\* accounts = [AccountMeta(authority ...), AccountMeta(vault_state_pda ...)]
Accounts(authority_pubkey, vault_state_pda) ==
    << AccountMeta(authority_pubkey, TRUE, FALSE),
       AccountMeta(vault_state_pda, FALSE, TRUE) >>

\* The part of a connector before its first network call: derive the state
\* address, encode the arguments, assemble the Instruction.  An exception of
\* to_bytes or of args_struct.build ends it.
BuildInstruction(discriminator, program_id, vault_id, new_sub_account, authority) ==
    LET id_bytes == to_bytes_little(vault_id, 8)
    IN  IF ~id_bytes.ok THEN [ok |-> FALSE, error |-> id_bytes.error]
        ELSE
        LET vault_state_pda ==
                find_program_address(<<BASE_SEED_BORING_VAULT_STATE, id_bytes.bytes>>,
                                     program_id)
            encoded_args ==
                CStructBuild(args_struct, [vault_id |-> vault_id,
                                           new_sub_account |-> new_sub_account])
        IN  IF ~encoded_args.ok THEN [ok |-> FALSE, error |-> encoded_args.error]
            ELSE [ok |-> TRUE,
                  instruction |->
                      [tag |-> "Instruction",
                       program_id |-> program_id,
                       data |-> discriminator \o encoded_args.bytes,
                       accounts |-> Accounts(KeypairPubkey(authority),
                                             vault_state_pda)]]

\* set_deposit_sub_account, lines 49-69
SetDepositInstruction(program_id, vault_id, new_sub_account, authority) ==
    BuildInstruction(SET_DEPOSIT_SUB_ACCOUNT_DISCRIMINATOR,
                     program_id, vault_id, new_sub_account, authority)

\* set_withdraw_sub_account, lines 95-115
SetWithdrawInstruction(program_id, vault_id, new_sub_account, authority) ==
    BuildInstruction(SET_WITHDRAW_SUB_ACCOUNT_DISCRIMINATOR,
                     program_id, vault_id, new_sub_account, authority)

-----------------------------------------------------------------------------
(* The ledger and the vault program: the transport's far side *)

PROGRAM_ID == "5ZRnXG4GsUMLaN7w2DtJV1cgLgcXHmuHCmJ2MxoorWCE"

DEPLOYED_VAULT_ID == PyNat(1)

\* 0x0807060504030201: every byte of the identifier differs.
SECOND_VAULT_ID == PyInt(FALSE, 513, 1027, 1541, 2055, 0)

Fill(n, b) == [i \in 1..n |-> b]

\* The 32 bytes of an address.
PubkeyBytes(pubkey) ==
    CASE pubkey = KeypairPubkey("admin")   -> Fill(32, 161)
      [] pubkey = KeypairPubkey("mallory") -> Fill(32, 178)
      [] OTHER                             -> Fill(32, 0)

\* The tag in front of the record in the account's data.
ACCOUNT_TAG == <<241, 242, 243, 244, 245, 246, 247, 248>>

\* The data of a vault's state account: the tag, then the record's fields in
\* layout order, integers little-endian, no padding.
VaultAccountData(v) ==
    ACCOUNT_TAG
    \o [i \in 1..8 |-> ByteOf(v.vault_id, i)]       \* vault_id
    \o PubkeyBytes(v.authority)                       \* authority
    \o Fill(32, 0)                                    \* pending_authority
    \o <<0>>                                          \* paused
    \o Fill(32, 17)                                   \* share_mint
    \o <<v.deposit_sub_account>>                      \* deposit_sub_account
    \o <<v.withdraw_sub_account>>                     \* withdraw_sub_account
    \o Fill(32, 18)                                   \* base_asset
    \o <<9>>                                          \* decimals
    \o Fill(32, 19)                                   \* exchange_rate_provider
    \o <<0, 202, 154, 59, 0, 0, 0, 0>>                \* exchange_rate
    \o <<0, 202, 154, 59, 0, 0, 0, 0>>                \* exchange_rate_high_water_mark
    \o Fill(8, 0)                                     \* fees_owed
    \o Fill(8, 0)                                     \* total_shares_last_update
    \o <<21, 205, 91, 7, 0, 0, 0, 0>>                 \* last_update_timestamp
    \o Fill(32, 20)                                   \* payout_address
    \o <<16, 39>>                                     \* rate_change_upper_bound
    \o <<15, 39>>                                     \* rate_change_lower_bound
    \o <<128, 81, 1, 0>>                              \* minimum_update_delay
    \o <<100, 0>>                                     \* platform_fee_bps
    \o <<200, 0>>                                     \* performance_fee_bps
    \o Fill(32, 21)                                   \* withdraw_authority
    \o Fill(32, 22)                                   \* strategist

\* The state account of the identifier whose 8 little-endian bytes are given.
VaultAddressOfBytes(id_bytes) ==
    [kind |-> "pda", program_id |-> PROGRAM_ID,
     seeds |-> <<"boring-vault-state", id_bytes>>]

VaultAddress(vault_id) ==
    VaultAddressOfBytes([i \in 1..8 |-> ByteOf(vault_id, i)])

\* The program's command tags.
PROGRAM_SET_DEPOSIT_SUB_ACCOUNT == <<135, 238, 218, 4, 120, 77, 207, 156>>

PROGRAM_SET_WITHDRAW_SUB_ACCOUNT == <<152, 197, 103, 249, 56, 180, 0, 172>>

NewVault(vault_id) ==
    [vault_id |-> vault_id, authority |-> KeypairPubkey("admin"),
     deposit_sub_account |-> 0, withdraw_sub_account |-> 0]

\* What the vault program does with one instruction: the command is chosen by
\* the first 8 bytes of the data, the identifier is the next 8 bytes
\* (little-endian) and the selector the last one; the first account must have
\* signed and be the vault's authority, the second must be the writable state
\* account of that identifier.
ProgramAccepts(tx) ==
    LET ix == tx.message.instructions[1]
        state == ix.accounts[2].pubkey
    IN  /\ ix.program_id = PROGRAM_ID
        /\ Len(ix.data) = 17
        /\ SubSeq(ix.data, 1, 8) \in {PROGRAM_SET_DEPOSIT_SUB_ACCOUNT,
                                      PROGRAM_SET_WITHDRAW_SUB_ACCOUNT}
        /\ Len(ix.accounts) = 2
        /\ ix.accounts[1].is_signer
        /\ \E i \in 1..Len(tx.signatures) : tx.signatures[i].signer = ix.accounts[1].pubkey
        /\ ix.accounts[2].is_writable
        /\ state \in DOMAIN vaults
        /\ state = VaultAddressOfBytes(SubSeq(ix.data, 9, 16))
        /\ vaults[state].authority = ix.accounts[1].pubkey

ProgramEffect(tx) ==
    LET ix == tx.message.instructions[1]
        state == ix.accounts[2].pubkey
    IN  IF SubSeq(ix.data, 1, 8) = PROGRAM_SET_DEPOSIT_SUB_ACCOUNT
        THEN [vaults EXCEPT ![state].deposit_sub_account = ix.data[17]]
        ELSE [vaults EXCEPT ![state].withdraw_sub_account = ix.data[17]]

\* The cluster processes one accepted transaction.
ProcessTransaction ==
    \E tx \in pending :
        /\ pending' = pending \ {tx}
        /\ vaults' = IF ProgramAccepts(tx) THEN ProgramEffect(tx) ELSE vaults
        /\ statuses' = statuses \cup {[signature |-> tx.signatures[1],
                                       ok |-> ProgramAccepts(tx)]}
        /\ slot' = slot + 1
        /\ UNCHANGED <<pc, call, instruction, recent_blockhash, transaction,
                       result, err, steps, account_info, decoded_data, ncalls>>

-----------------------------------------------------------------------------
(* The connectors *)

Commands == {"set_deposit_sub_account", "set_withdraw_sub_account"}

Keypairs == {"admin", "mallory"}

\* 1, 0x0807060504030201, 2^64 - 1, 2^64, -1
VaultIds ==
    { DEPLOYED_VAULT_ID,
      SECOND_VAULT_ID,
      PyInt(FALSE, 65535, 65535, 65535, 65535, 0),
      PyInt(FALSE, 0, 0, 0, 0, 1),
      PyInt(TRUE, 1, 0, 0, 0, 0) }

\* 5, 255, 256, -1
SubAccounts ==
    { PyNat(5), PyNat(255), PyNat(256), PyInt(TRUE, 1, 0, 0, 0, 0) }

Step(op, ok) == [op |-> op, ok |-> ok]

\* Entry of a connector up to its first network call (lines 49-69 / 95-115).
Call(cmd, vault_id, new_sub_account, authority) ==
    /\ pc = "idle"
    /\ ncalls < MaxCalls
    /\ ncalls' = ncalls + 1
    /\ call' = [tag |-> "Call", cmd |-> cmd, program_id |-> PROGRAM_ID,
                vault_id |-> vault_id, new_sub_account |-> new_sub_account,
                authority |-> authority]
    /\ LET built == IF cmd = "set_deposit_sub_account"
                    THEN SetDepositInstruction(PROGRAM_ID, vault_id,
                                               new_sub_account, authority)
                    ELSE SetWithdrawInstruction(PROGRAM_ID, vault_id,
                                                new_sub_account, authority)
       IN  IF built.ok
           THEN /\ instruction' = built.instruction
                /\ pc' = "built"
                /\ err' = None
           ELSE /\ instruction' = None
                /\ pc' = "raised"
                /\ err' = [tag |-> "Error", error |-> built.error]
    /\ steps' = <<>>
    /\ UNCHANGED <<recent_blockhash, transaction, result, account_info,
                   decoded_data, vaults, pending, statuses, slot>>

\* A fetch that is tried again when the transport fails.
GetLatestBlockhashRetrying ==
    /\ pc = "built"
    /\ \E ok \in BOOLEAN :
        /\ steps' = Append(steps, Step("get_latest_blockhash", ok))
        /\ Len(steps) < 3
        /\ IF ok
           THEN /\ recent_blockhash' = [tag |-> "Hash", slot |-> slot]
                /\ pc' = "fetched"
           ELSE /\ UNCHANGED <<recent_blockhash, pc>>
    /\ UNCHANGED <<call, instruction, transaction, result, err, account_info,
                   decoded_data, ncalls, vaults, pending, statuses, slot>>

\* client.get_latest_blockhash() (lines 71-72 / 117-118): the blockhash, or the
\* transport's exception, which nothing catches.
GetLatestBlockhash ==
    /\ pc = "built"
    /\ \E ok \in BOOLEAN :
        /\ steps' = Append(steps, Step("get_latest_blockhash", ok))
        /\ IF ok
           THEN /\ recent_blockhash' = [tag |-> "Hash", slot |-> slot]
                /\ pc' = "fetched"
                /\ err' = None
           ELSE /\ recent_blockhash' = None
                /\ pc' = "raised"
                /\ err' = [tag |-> "Error", error |-> "TransportError"]
    /\ UNCHANGED <<call, instruction, transaction, result, account_info,
                   decoded_data, ncalls, vaults, pending, statuses, slot>>

\* MessageV0.try_compile(...) (lines 74-79)
CompileMessage(payer, ix, blockhash) ==
    [payer |-> payer, instructions |-> <<ix>>, recent_blockhash |-> blockhash]

\* VersionedTransaction(message, [authority]) (line 81)
SignTransaction(message, keypair) ==
    [tag |-> "Transaction", message |-> message,
     signatures |-> <<[signer |-> KeypairPubkey(keypair), message |-> message]>>]

Processed(signature) == \E s \in statuses : s.signature = signature

\* A submission that waits for the transaction to be processed before it returns.
SendTransactionAndConfirm ==
    /\ pc = "fetched"
    /\ LET message == CompileMessage(KeypairPubkey(call.authority), instruction,
                                     recent_blockhash)
           tx == SignTransaction(message, call.authority)
       IN  /\ transaction' = tx
           /\ steps' = steps \o <<Step("try_compile", TRUE), Step("sign", TRUE),
                                  Step("send_transaction", TRUE),
                                  Step("confirm_transaction", TRUE)>>
           /\ vaults' = IF ProgramAccepts(tx) THEN ProgramEffect(tx) ELSE vaults
           /\ statuses' = statuses \cup {[signature |-> tx.signatures[1],
                                          ok |-> ProgramAccepts(tx)]}
           /\ slot' = slot + 1
           /\ result' = tx.signatures[1]
           /\ pc' = "returned"
    /\ UNCHANGED <<call, instruction, recent_blockhash, err, account_info,
                   decoded_data, ncalls, pending>>

\* Lines 74-84 / 120-130: compile, sign, client.send_transaction(transaction),
\* return result.value.  A rejected submission is the transport's exception.
SendTransaction ==
    /\ pc = "fetched"
    /\ LET message == CompileMessage(KeypairPubkey(call.authority), instruction,
                                     recent_blockhash)
           tx == SignTransaction(message, call.authority)
       IN  /\ transaction' = tx
           /\ \E accepted \in BOOLEAN :
                /\ steps' = steps \o <<Step("try_compile", TRUE), Step("sign", TRUE),
                                       Step("send_transaction", accepted)>>
                /\ IF accepted
                   THEN /\ pending' = pending \cup {tx}
                        /\ result' = tx.signatures[1]
                        /\ pc' = "returned"
                        /\ err' = None
                   ELSE /\ pending' = pending
                        /\ result' = None
                        /\ pc' = "raised"
                        /\ err' = [tag |-> "Error", error |-> "TransportError"]
    /\ UNCHANGED <<call, instruction, recent_blockhash, account_info,
                   decoded_data, ncalls, vaults, statuses, slot>>

-----------------------------------------------------------------------------
(* The caller: test_sub_accounts.py *)

\* rpc_client.confirm_transaction(tx_sig) (test lines 86 / 114): returns once
\* the transaction has been processed.
ConfirmTransaction ==
    /\ pc = "returned"
    /\ Processed(result)
    /\ pc' = "confirmed"
    /\ UNCHANGED <<call, instruction, recent_blockhash, transaction, result, err,
                   steps, account_info, decoded_data, ncalls, vaults, pending,
                   statuses, slot>>

\* Test lines 89-94 / 118-123: derive the address, read the account, assert
\* that there is one.
GetAccountInfo ==
    /\ pc = "confirmed"
    /\ LET vault_state_pda ==
               find_program_address(
                   <<BASE_SEED_BORING_VAULT_STATE,
                     to_bytes_little(call.vault_id, 8).bytes>>, call.program_id)
       IN  IF vault_state_pda \in DOMAIN vaults
           THEN /\ account_info' = [tag |-> "Account",
                                    data |-> VaultAccountData(vaults[vault_state_pda])]
                /\ pc' = "got_account"
                /\ err' = None
           ELSE /\ account_info' = None
                /\ pc' = "raised"
                /\ err' = [tag |-> "Error", error |-> "AssertionError"]
    /\ UNCHANGED <<call, instruction, recent_blockhash, transaction, result,
                   steps, decoded_data, ncalls, vaults, pending, statuses, slot>>

\* account_info.value.data[8:]
StripTag(data) == SubSeq(data, 9, Len(data))

\* Test lines 95-96 / 124-125: strip the tag, parse the record.
ParseAccountData ==
    /\ pc = "got_account"
    /\ LET parsed == CStructParse(boring_vault_flat_struct,
                                  StripTag(account_info.data))
       IN  IF parsed.ok
           THEN /\ decoded_data' = [tag |-> "Record", value |-> parsed.value,
                                    consumed |-> parsed.consumed]
                /\ pc' = "parsed"
                /\ err' = None
           ELSE /\ decoded_data' = None
                /\ pc' = "raised"
                /\ err' = [tag |-> "Error", error |-> parsed.error]
    /\ UNCHANGED <<call, instruction, recent_blockhash, transaction, result,
                   steps, account_info, ncalls, vaults, pending, statuses, slot>>

\* The test is over: an exception ended it, or the decoded record was checked.
Finish ==
    /\ pc \in {"raised", "parsed"}
    /\ pc' = "idle"
    /\ call' = None
    /\ instruction' = None
    /\ recent_blockhash' = None
    /\ transaction' = None
    /\ result' = None
    /\ err' = None
    /\ steps' = <<>>
    /\ account_info' = None
    /\ decoded_data' = None
    /\ UNCHANGED <<ncalls, vaults, pending, statuses, slot>>

-----------------------------------------------------------------------------

Init ==
    /\ pc = "idle"
    /\ call = None
    /\ instruction = None
    /\ recent_blockhash = None
    /\ transaction = None
    /\ result = None
    /\ err = None
    /\ steps = <<>>
    /\ account_info = None
    /\ decoded_data = None
    /\ ncalls = 0
    /\ vaults = [a \in {VaultAddress(DEPLOYED_VAULT_ID), VaultAddress(SECOND_VAULT_ID)} |->
                    IF a = VaultAddress(DEPLOYED_VAULT_ID)
                    THEN NewVault(DEPLOYED_VAULT_ID) ELSE NewVault(SECOND_VAULT_ID)]
    /\ pending = {}
    /\ statuses = {}
    /\ slot = 0

Next ==
    \/ \E cmd \in Commands, vault_id \in VaultIds, new_sub_account \in SubAccounts,
          authority \in Keypairs :
            Call(cmd, vault_id, new_sub_account, authority)
    \/ GetLatestBlockhash
    \/ SendTransaction
    \/ ProcessTransaction
    \/ ConfirmTransaction
    \/ GetAccountInfo
    \/ ParseAccountData
    \/ Finish

Spec == Init /\ [][Next]_vars

-----------------------------------------------------------------------------
(* The record decoder on its own: account data of every length around the
   record's, handed to the caller's parse step *)

\* How many bytes shorter or longer than tag + record the data may be.
MaxSlack == 12

\* Byte i of a buffer: all zero, all 255, or counting up.
PatternByte(pattern, i) ==
    CASE pattern = "zeros" -> 0
      [] pattern = "ones"  -> 255
      [] pattern = "ramp"  -> i % 256

DataLengths ==
    {0, 5, 8, 251, 252, 253} \cup ((328 - MaxSlack)..(328 + MaxSlack))

InitCodec ==
    /\ pc = "got_account"
    /\ \E n \in DataLengths, pattern \in {"zeros", "ones", "ramp"} :
          account_info = [tag |-> "Account",
                          data |-> [i \in 1..n |-> PatternByte(pattern, i)]]
    /\ call = None
    /\ instruction = None
    /\ recent_blockhash = None
    /\ transaction = None
    /\ result = None
    /\ err = None
    /\ steps = <<>>
    /\ decoded_data = None
    /\ ncalls = 0
    /\ vaults = <<>>
    /\ pending = {}
    /\ statuses = {}
    /\ slot = 0

NextCodec == ParseAccountData

SpecCodec == InitCodec /\ [][NextCodec]_vars

-----------------------------------------------------------------------------
(* Claims *)

\* x is in [0, 2^64), said of the digits directly.
InU64(x) == ~x.neg /\ x.mag[5] = 0

\* x is in [0, 256).
InU8(x) == ~x.neg /\ x.mag[1] < 256 /\ \A k \in 2..5 : x.mag[k] = 0

\* C1: the instruction data a connector builds is exactly 17 bytes: the
\* command's own 8-byte discriminator, the identifier as 8 little-endian bytes,
\* the selector as 1 byte; identifier 1, selector 5, deposit gives
\* 87 EE DA 04 78 4D CF 9C 01 00 00 00 00 00 00 00 05.
C1_InstructionDataLayout ==
    instruction # None =>
        LET d == instruction.data
        IN  /\ Len(d) = 17
            /\ \A i \in 1..17 : d[i] \in 0..255
            /\ call.cmd = "set_deposit_sub_account" =>
                   SubSeq(d, 1, 8) = <<135, 238, 218, 4, 120, 77, 207, 156>>
            /\ call.cmd = "set_withdraw_sub_account" =>
                   SubSeq(d, 1, 8) = <<152, 197, 103, 249, 56, 180, 0, 172>>
            /\ \A k \in 1..4 : d[8 + 2 * k - 1] + 256 * d[8 + 2 * k] = call.vault_id.mag[k]
            /\ d[17] = call.new_sub_account.mag[1]
            /\ ( /\ call.cmd = "set_deposit_sub_account"
                 /\ call.vault_id = PyNat(1)
                 /\ call.new_sub_account = PyNat(5) )
               => d = <<135, 238, 218, 4, 120, 77, 207, 156,
                        1, 0, 0, 0, 0, 0, 0, 0, 5>>

C1_Witness ==
    /\ pc = "built"
    /\ call.cmd = "set_deposit_sub_account"
    /\ call.vault_id = PyNat(1)
    /\ call.new_sub_account = PyNat(5)
    /\ instruction.data = <<135, 238, 218, 4, 120, 77, 207, 156,
                            1, 0, 0, 0, 0, 0, 0, 0, 5>>

\* C8: decoding the 9-byte argument encoding with the argument schema gives
\* back the identifier and the selector that were encoded, and no other
\* in-range pair has the same encoding.
C8_ArgsRoundTrip ==
    instruction # None =>
        LET encoded_args == SubSeq(instruction.data, 9, Len(instruction.data))
            parsed == CStructParse(args_struct, encoded_args)
        IN  /\ Len(encoded_args) = 9
            /\ parsed.ok
            /\ parsed.value.vault_id = call.vault_id
            /\ parsed.value.new_sub_account = call.new_sub_account
            /\ \A id \in VaultIds, sel \in SubAccounts :
                  (InU64(id) /\ InU8(sel) /\ <<id, sel>> # <<call.vault_id, call.new_sub_account>>)
                  => CStructBuild(args_struct, [vault_id |-> id, new_sub_account |-> sel]).bytes
                         # encoded_args

C8_Witness ==
    /\ pc = "built"
    /\ call.vault_id = SECOND_VAULT_ID
    /\ call.new_sub_account = PyNat(255)
    /\ SubSeq(instruction.data, 9, 17) = <<1, 2, 3, 4, 5, 6, 7, 8, 255>>

\* C4: the instruction's account list is exactly the authority's address as a
\* read-only signer, then the address derived from "boring-vault-state" and
\* the identifier's 8 little-endian bytes as a writable non-signer; the
\* derived address depends on neither the command nor the new value.
C4_AccountList ==
    instruction # None =>
        LET id_bytes == [i \in 1..8 |->
                            IF i % 2 = 1 THEN call.vault_id.mag[(i + 1) \div 2] % 256
                            ELSE call.vault_id.mag[i \div 2] \div 256]
        IN  /\ Len(instruction.accounts) = 2
            /\ instruction.accounts[1] =
                   [pubkey |-> [kind |-> "key", owner |-> call.authority],
                    is_signer |-> TRUE, is_writable |-> FALSE]
            /\ instruction.accounts[2] =
                   [pubkey |-> [kind |-> "pda", program_id |-> call.program_id,
                                seeds |-> <<"boring-vault-state", id_bytes>>],
                    is_signer |-> FALSE, is_writable |-> TRUE]

C4_Witness ==
    /\ pc = "built"
    /\ call.cmd = "set_withdraw_sub_account"
    /\ call.vault_id = SECOND_VAULT_ID
    /\ instruction.accounts[2].pubkey.seeds[2] = <<1, 2, 3, 4, 5, 6, 7, 8>>
    /\ instruction.accounts[2].is_writable

\* C9: a call with an identifier outside [0, 2^64) or a new value outside
\* [0, 256) ends with an encoding error before any transport operation: no
\* blockhash fetched, nothing compiled, signed or submitted, nothing encoded.
C9_OutOfRangeRejectedBeforeTransport ==
    (call # None /\ ~(InU64(call.vault_id) /\ InU8(call.new_sub_account))) =>
        /\ pc = "raised"
        /\ err # None
        /\ err.error \in {"OverflowError", "FormatFieldError"}
        /\ steps = <<>>
        /\ instruction = None
        /\ recent_blockhash = None
        /\ transaction = None
        /\ result = None

C9_Witness ==
    /\ pc = "raised"
    /\ call # None
    /\ InU64(call.vault_id)
    /\ call.new_sub_account = PyNat(256)
    /\ err # None
    /\ err.error = "FormatFieldError"
    /\ steps = <<>>

Count(seq, op) == Cardinality({i \in 1..Len(seq) : seq[i].op = op})

\* C3: a call fetches the blockhash, compiles, signs and submits, in that
\* order, and returns the signature once the transport has accepted the
\* submission; it never confirms, so at its return the transaction may be
\* unprocessed and the vault may hold the old value.
C3_ReturnsWithoutConfirming ==
    /\ \A i \in 1..Len(steps) : steps[i].op # "confirm_transaction"
    /\ pc = "returned" =>
          /\ steps = << Step("get_latest_blockhash", TRUE), Step("try_compile", TRUE),
                        Step("sign", TRUE), Step("send_transaction", TRUE) >>
          /\ result = transaction.signatures[1]

C3_Witness ==
    /\ pc = "returned"
    /\ call.cmd = "set_deposit_sub_account"
    /\ call.vault_id = PyNat(1)
    /\ call.new_sub_account = PyNat(5)
    /\ call.authority = "admin"
    /\ transaction \in pending
    /\ ~Processed(result)
    /\ vaults[instruction.accounts[2].pubkey].deposit_sub_account = 0

\* C10: one call fetches the blockhash at most once and submits at most once;
\* a failed fetch ends the call with the transport's error and no submission;
\* a rejected submission ends the call with the transport's error; neither
\* returns a signature.
C10_NoRetry ==
    /\ Count(steps, "get_latest_blockhash") <= 1
    /\ Count(steps, "send_transaction") <= 1
    /\ (\E i \in 1..Len(steps) : steps[i] = Step("get_latest_blockhash", FALSE)) =>
          /\ pc = "raised"
          /\ err # None
          /\ err.error = "TransportError"
          /\ Count(steps, "send_transaction") = 0
          /\ transaction = None
          /\ result = None
    /\ (\E i \in 1..Len(steps) : steps[i] = Step("send_transaction", FALSE)) =>
          /\ pc = "raised"
          /\ err # None
          /\ err.error = "TransportError"
          /\ result = None

C10_Witness ==
    /\ pc = "raised"
    /\ Len(steps) = 4
    /\ steps[1] = Step("get_latest_blockhash", TRUE)
    /\ steps[4] = Step("send_transaction", FALSE)
    /\ result = None

\* C2: once the transaction of set_deposit_sub_account(vault_id, v), signed by
\* the vault's authority, is confirmed, the state account read at the derived
\* address, tag stripped and decoded, has config_deposit_sub_account = v;
\* likewise set_withdraw_sub_account and config_withdraw_sub_account.
C2_ConfirmedWriteIsRead ==
    ( /\ pc = "parsed"
      /\ instruction.accounts[2].pubkey \in DOMAIN vaults
      /\ vaults[instruction.accounts[2].pubkey].authority = KeypairPubkey(call.authority) )
    => /\ call.cmd = "set_deposit_sub_account" =>
              decoded_data.value.config_deposit_sub_account = call.new_sub_account
       /\ call.cmd = "set_withdraw_sub_account" =>
              decoded_data.value.config_withdraw_sub_account = call.new_sub_account

C2_Witness ==
    /\ pc = "parsed"
    /\ call.cmd = "set_deposit_sub_account"
    /\ call.vault_id = PyNat(1)
    /\ call.new_sub_account = PyNat(5)
    /\ call.authority = "admin"
    /\ decoded_data.value.config_deposit_sub_account = PyNat(5)
    /\ decoded_data.value.config_withdraw_sub_account = PyNat(0)

\* The record's length by the field table: 8 addresses of 32 bytes, the
\* identifier, 4 one-byte fields, 5 eight-byte fields, 4 two-byte fields and
\* one four-byte field.
FieldTableLength == 8 * 32 + 8 + 4 * 1 + 5 * 8 + 4 * 2 + 4

RecordBody == StripTag(account_info.data)

\* C6 (as amended): the decoder rejects every buffer shorter than the record,
\* whatever its content, and never returns a record for one; a buffer of the
\* record's length or longer is decoded from its first 320 bytes and what
\* follows them is ignored.
C6_ShortRejectedLongDecodedFromPrefix ==
    pc \in {"parsed", "raised"} =>
        /\ Len(RecordBody) < 320 =>
              /\ pc = "raised"
              /\ err # None
              /\ err.error = "StreamError"
              /\ decoded_data = None
        /\ Len(RecordBody) >= 320 =>
              /\ pc = "parsed"
              /\ decoded_data.value.config_deposit_sub_account = PyNat(RecordBody[106])
              /\ decoded_data.value.config_withdraw_sub_account = PyNat(RecordBody[107])
              /\ decoded_data.value.manager_strategist = SubSeq(RecordBody, 289, 320)

C6_Witness ==
    /\ pc = "parsed"
    /\ Len(RecordBody) = 321
    /\ decoded_data.value.manager_strategist = SubSeq(RecordBody, 289, 320)

\* C6 as claimed: every buffer whose length is not exactly the record's
\* length, shorter or longer, is rejected.
C6_AnyOtherLengthRejected ==
    (pc \in {"parsed", "raised"} /\ Len(RecordBody) # SizeOf(boring_vault_flat_struct))
    => (pc = "raised" /\ decoded_data = None)

\* C7 (as amended): the widths of the 23 fields of the record layout sum to
\* 320, and decoding a well-formed account consumes exactly 320 bytes after
\* the tag.
C7_RecordIs320Bytes ==
    /\ Len(boring_vault_flat_struct) = 23
    /\ SizeOf(boring_vault_flat_struct) = FieldTableLength
    /\ FieldTableLength = 320
    /\ pc = "parsed" => decoded_data.consumed = 320
    /\ pc = "raised" => Len(RecordBody) < 320

C7_Witness ==
    /\ pc = "parsed"
    /\ Len(RecordBody) = 320
    /\ decoded_data.consumed = 320

\* C7 as claimed: the record body is 244 bytes: decoding a well-formed
\* account consumes exactly 244 bytes after the tag.
C7_RecordIs244Bytes ==
    pc = "parsed" => decoded_data.consumed = 244

====
